---- MODULE Spec2Model ----
(***************************************************************************)
(* Model of src/app.py: the listing flow scrape_waitrose, the detail flow  *)
(* scrape_waitrose_details and the rating normaliser                       *)
(* WaitroseWineDetail.clean_rating.                                        *)
(*                                                                         *)
(* Each coroutine is cut at its await points (entering the crawler,        *)
(* crawler.arun, leaving the crawler); the code between two awaits is one  *)
(* atomic step, as under a single asyncio event loop.                      *)
(*                                                                         *)
(*   Spec       one request in isolation against a driver whose responses  *)
(*              are arbitrary (a mocked driver)                            *)
(*   FairSpec   Spec with the event loop's fairness                        *)
(*   SpecDom    two listing calls interleaved at their awaits, the driver  *)
(*              keeping one page per session identifier                    *)
(*   SpecRating clean_rating applied to every short text                   *)
(***************************************************************************)
EXTENDS Integers, Sequences, FiniteSets, TLC

VARIABLES
    pc,         \* [Procs -> position of the coroutine]
    max_pages,  \* [Calls -> argument max_pages]
    term,       \* [Calls -> argument search_term (0: not called yet)]
    page,       \* [Calls -> loop variable of `for page in range(max_pages)`]
    products,   \* [Procs -> the accumulator `products` / `product_details`]
    cfg,        \* [Calls -> the CrawlerRunConfig of the fetch last started]
    log,        \* [Calls -> the driver results received so far, in order]
    opened,     \* [Procs -> number of crawler sessions entered]
    closed,     \* [Procs -> number of crawler sessions left]
    started,    \* [Procs -> number of crawler.arun calls made]
    finished,   \* [Procs -> number of crawler.arun calls that returned]
    pending,    \* [Procs -> how the body of the `async with` ended]
    outcome,    \* [Procs -> what the caller got: a value or an exception]
    dresp,      \* the driver result the detail call received
    printed,    \* what the detail call printed
    ctx,        \* [session identifier -> the page the driver keeps for it]
    ranOn,      \* [Calls -> who last wrote the page a load-more fetch ran on]
    rpc, rIn, rOut  \* clean_rating: position, argument v, returned value

vars == <<pc, max_pages, term, page, products, cfg, log, opened, closed,
          started, finished, pending, outcome, dresp, printed, ctx, ranOn,
          rpc, rIn, rOut>>

detailVars  == <<dresp, printed>>
domVars     == <<ctx, ranOn>>
ratingVars  == <<rpc, rIn, rOut>>

----------------------------------------------------------------------------
(* Bounds *)

MaxPages == 3       \* largest max_pages argument tried
MaxBatch == 3       \* most rows in one extracted payload
MaxChunk == 2       \* most result nodes one page load adds (SpecDom)
MaxPagesDom == 2    \* largest max_pages argument tried in SpecDom
MaxText == 4        \* longest rating text tried

Calls  == {1, 2}    \* listing calls
Detail == 0         \* the detail call
Procs  == Calls \cup {Detail}
Terms  == {1, 2}    \* search terms
CatalogueSize == 3  \* result nodes the site has for each search term

Min(a, b) == IF a < b THEN a ELSE b

----------------------------------------------------------------------------
(* Rows and records *)

\* a field the extracted mapping does not have
Null == <<>>

\* one extracted mapping: only the required fields are kept
RowOf(name, url) == [product_name |-> name, product_url |-> url]

\* WaitroseProduct(**p): product_name and product_url are required
WaitroseProduct(p) == p.product_name # Null /\ p.product_url # Null

\* WaitroseWineDetail(**p): product_name is the one required field
WaitroseWineDetail(p) == p.product_name # Null

\* the three shapes of a row the driver can deliver at position id
RowShapes == {"ok", "noname", "nourl"}
MkRow(shape, id) ==
    CASE shape = "ok"     -> RowOf(id, id)
      [] shape = "noname" -> RowOf(Null, id)
      [] shape = "nourl"  -> RowOf(id, Null)

----------------------------------------------------------------------------
(* Driver results: result.success, result.extracted_content, result.html *)

NoContent == [kind |-> "none", shape |-> "list", rows |-> <<>>]
Malformed == [kind |-> "malformed", shape |-> "list", rows |-> <<>>]
Json(shape, rows) == [kind |-> "json", shape |-> shape, rows |-> rows]

\* rows k.1 .. k.n of fetch k, shaped by sh
RowsOf(k, sh) == [i \in 1..Len(sh) |-> MkRow(sh[i], <<k, i>>)]

ShapeSeqs == UNION {[1..n -> RowShapes] : n \in 0..MaxBatch}

\* every extracted_content a mocked driver can hand back for fetch k:
\* nothing, text that is not JSON, a JSON array of mappings, one JSON
\* object, or the empty object
Contents(k) ==
    {NoContent, Malformed}
        \cup {Json("list", RowsOf(k, sh)) : sh \in ShapeSeqs}
        \cup {Json("object", <<MkRow(s, <<k, 1>>)>>) : s \in RowShapes}
        \cup {Json("object", <<>>)}

Failure == [success |-> FALSE, content |-> NoContent, marker |-> FALSE]

\* marker: "button-load-more" occurs in result.html
MockResponses(k) ==
    {Failure} \cup
    {[success |-> TRUE, content |-> c, marker |-> m] :
        c \in Contents(k), m \in BOOLEAN}

----------------------------------------------------------------------------
(* Control outcomes of a loop body *)

NoExc == "none"
Ctl(prods, ctl, exc) == [products |-> prods, ctl |-> ctl, exc |-> exc]

\* json.loads(result.extracted_content): the exception it raises, if any
JsonLoads(content) ==
    CASE content.kind = "none"      -> "TypeError"
      [] content.kind = "malformed" -> "JSONDecodeError"
      [] OTHER                      -> NoExc

\* `if not batch` / `if data`: empty array and empty object are falsy
Truthy(content) == Len(content.rows) > 0

----------------------------------------------------------------------------
(* scrape_waitrose: the body of one loop iteration, after arun returned *)

\* `for page in range(max_pages)`: is there an iteration for this index
InRange_OffByOne(p, n) == p <= n
InRange(p, n) == p < n

\* `else: break` of `if result.success`
AfterFailedFetch_Continue(prods) == Ctl(prods, "continue", NoExc)
AfterFailedFetch(prods) == Ctl(prods, "break", NoExc)

\* json.loads raised: nothing in the loop catches it
AfterLoadError_Break(prods, exc) == Ctl(prods, "break", NoExc)
AfterLoadError(prods, exc) == Ctl(prods, "raise", exc)

\* `if "button-load-more" not in result.html: break`
AfterAppend_IgnoreMarker(prods, marker) == Ctl(prods, "continue", NoExc)
AfterAppend(prods, marker) ==
    IF ~marker THEN Ctl(prods, "break", NoExc)
               ELSE Ctl(prods, "continue", NoExc)

\* [WaitroseProduct(**p) for p in batch]: the exception it raises, if any.
\* Iterating a JSON object yields its keys, and ** of a string is a
\* TypeError; a mapping without a required field is a ValidationError.
BuildProductsExc(content) ==
    IF content.shape = "object" THEN "TypeError"
    ELSE IF \A i \in 1..Len(content.rows) : WaitroseProduct(content.rows[i])
         THEN NoExc
         ELSE "ValidationError"

ListingBody(prods, resp) ==
    IF resp.success
    THEN IF JsonLoads(resp.content) # NoExc
         THEN AfterLoadError(prods, JsonLoads(resp.content))
         ELSE IF ~Truthy(resp.content)
         THEN Ctl(prods, "break", NoExc)
         ELSE IF BuildProductsExc(resp.content) # NoExc
         THEN Ctl(prods, "raise", BuildProductsExc(resp.content))
         ELSE AfterAppend(prods \o resp.content.rows, resp.marker)
    ELSE AfterFailedFetch(prods)

----------------------------------------------------------------------------
(* The crawler session and the run configuration *)

\* `async with AsyncWebCrawler(...)`: where control goes when the body is
\* left by falling out of the loop, by break, or by an exception
ScopeExit_LeakOnRaise(ctl) == IF ctl = "raise" THEN "done" ELSE "leaving"
ScopeExit(ctl) == "leaving"

\* session_id="waitrose_session"
SessionId_PerCall(c) == IF c = 1 THEN "session_1" ELSE "session_2"
SessionId(c) == "waitrose_session"

SessionIds == {"waitrose_session", "session_1", "session_2"}

NoCfg == [js_only |-> FALSE, click |-> FALSE, session_id |-> "",
          wait_for |-> -1, url |-> 0]

\* CrawlerRunConfig(...) of the listing loop; wait_for is the node count the
\* page must exceed, -1 for None
ListingConfig(c) ==
    [js_only    |-> page[c] > 0,
     click      |-> page[c] > 0,
     session_id |-> SessionId(c),
     wait_for   |-> IF page[c] > 0 THEN Len(products[c]) ELSE -1,
     url        |-> term[c]]

NoPending == [ctl |-> "none", exc |-> NoExc]
NoOutcome == [kind |-> "none", value |-> <<>>, exc |-> NoExc]
Returned(v) == [kind |-> "return", value |-> v, exc |-> NoExc]
Raised(e)   == [kind |-> "raise", value |-> <<>>, exc |-> e]

----------------------------------------------------------------------------
(* scrape_waitrose, step by step *)

\* the call, up to the await of the crawler's __aenter__
L_Call(c, t, n) ==
    /\ pc[c] = "idle"
    /\ pc' = [pc EXCEPT ![c] = "entering"]
    /\ term' = [term EXCEPT ![c] = t]
    /\ max_pages' = [max_pages EXCEPT ![c] = n]
    /\ products' = [products EXCEPT ![c] = <<>>]
    /\ UNCHANGED <<page, cfg, log, opened, closed, started, finished,
                   pending, outcome>>
    /\ UNCHANGED <<detailVars, domVars, ratingVars>>

\* __aenter__ returned: the session is open, the loop begins
L_Enter(c) ==
    /\ pc[c] = "entering"
    /\ opened' = [opened EXCEPT ![c] = @ + 1]
    /\ page' = [page EXCEPT ![c] = 0]
    /\ pc' = [pc EXCEPT ![c] = "loop"]
    /\ UNCHANGED <<max_pages, term, products, cfg, log, closed, started,
                   finished, pending, outcome>>
    /\ UNCHANGED <<detailVars, domVars, ratingVars>>

\* top of the loop: build the config and call arun, or fall out of the loop
L_Iterate(c) ==
    /\ pc[c] = "loop"
    /\ IF InRange(page[c], max_pages[c])
       THEN /\ cfg' = [cfg EXCEPT ![c] = ListingConfig(c)]
            /\ started' = [started EXCEPT ![c] = @ + 1]
            /\ pc' = [pc EXCEPT ![c] = "await"]
            /\ UNCHANGED pending
       ELSE /\ pending' = [pending EXCEPT ![c] = [ctl |-> "return", exc |-> NoExc]]
            /\ pc' = [pc EXCEPT ![c] = ScopeExit("return")]
            /\ UNCHANGED <<cfg, started>>
    /\ UNCHANGED <<max_pages, term, page, products, log, opened, closed,
                   finished, outcome>>
    /\ UNCHANGED <<detailVars, domVars, ratingVars>>

\* arun returned resp: the rest of the loop body
Deliver(c, resp) ==
    LET r == ListingBody(products[c], resp) IN
    /\ pc[c] = "await"
    /\ finished' = [finished EXCEPT ![c] = @ + 1]
    /\ log' = [log EXCEPT ![c] = Append(@, resp)]
    /\ products' = [products EXCEPT ![c] = r.products]
    /\ IF r.ctl = "continue"
       THEN /\ page' = [page EXCEPT ![c] = @ + 1]
            /\ pc' = [pc EXCEPT ![c] = "loop"]
            /\ UNCHANGED pending
       ELSE /\ pending' = [pending EXCEPT ![c] = [ctl |-> r.ctl, exc |-> r.exc]]
            /\ pc' = [pc EXCEPT ![c] = ScopeExit(r.ctl)]
            /\ UNCHANGED page
    /\ UNCHANGED <<max_pages, term, cfg, opened, closed, started, outcome>>
    /\ UNCHANGED <<detailVars, ratingVars>>

\* arun against a mocked driver: any result at all
L_Result(c) ==
    /\ pc[c] = "await"
    /\ \E resp \in MockResponses(page[c]) : Deliver(c, resp)
    /\ UNCHANGED domVars

\* __aexit__ returned: the session is closed; `return products`, or the
\* exception goes on to the caller
L_Leave(c) ==
    /\ pc[c] = "leaving"
    /\ closed' = [closed EXCEPT ![c] = @ + 1]
    /\ outcome' = [outcome EXCEPT ![c] =
                      IF pending[c].ctl = "raise"
                      THEN Raised(pending[c].exc)
                      ELSE Returned(products[c])]
    /\ pc' = [pc EXCEPT ![c] = "done"]
    /\ UNCHANGED <<max_pages, term, page, products, cfg, log, opened,
                   started, finished, pending>>
    /\ UNCHANGED <<detailVars, domVars, ratingVars>>

----------------------------------------------------------------------------
(* scrape_waitrose_details *)

Built(rows, exc) == [rows |-> rows, exc |-> exc]

\* `[WaitroseWineDetail(**p) for p in data]` / `WaitroseWineDetail(**data)`:
\* the comprehension is evaluated in full before extend() is called, so one
\* failing row leaves product_details as it was
BuildDetails_SkipInvalid(content) ==
    Built(SelectSeq(content.rows, WaitroseWineDetail), NoExc)
BuildDetails(content) ==
    IF \A i \in 1..Len(content.rows) : WaitroseWineDetail(content.rows[i])
    THEN Built(content.rows, NoExc)
    ELSE Built(<<>>, "ValidationError")

Body(details, out, exc) == [details |-> details, printed |-> out, exc |-> exc]

\* the body after arun returned: `if result.success: try: ... except ...`.
\* The handler `except Exception` prints `data`, which is assigned only if
\* json.loads returned: when json.loads itself raised something other than
\* JSONDecodeError the name is unbound.
DetailBody(resp) ==
    IF ~resp.success
    THEN Body(<<>>, <<"Crawl failed">>, NoExc)
    ELSE IF JsonLoads(resp.content) = "JSONDecodeError"
    THEN Body(<<>>, <<"JSON decode error", "Raw content">>, NoExc)
    ELSE IF JsonLoads(resp.content) # NoExc
    THEN Body(<<>>, <<"Error creating WaitroseWineDetail">>, "UnboundLocalError")
    ELSE IF ~Truthy(resp.content)
    THEN Body(<<>>, <<>>, NoExc)
    ELSE IF BuildDetails(resp.content).exc # NoExc
    THEN Body(<<>>, <<"Error creating WaitroseWineDetail", "Data">>, NoExc)
    ELSE Body(BuildDetails(resp.content).rows, <<>>, NoExc)

\* the call, up to the await of the crawler's __aenter__
D_Call ==
    /\ pc[Detail] = "idle"
    /\ pc' = [pc EXCEPT ![Detail] = "entering"]
    /\ products' = [products EXCEPT ![Detail] = <<>>]
    /\ UNCHANGED <<max_pages, term, page, cfg, log, opened, closed, started,
                   finished, pending, outcome>>
    /\ UNCHANGED <<detailVars, domVars, ratingVars>>

\* __aenter__ returned: the session is open and arun is called
D_Enter ==
    /\ pc[Detail] = "entering"
    /\ opened' = [opened EXCEPT ![Detail] = @ + 1]
    /\ started' = [started EXCEPT ![Detail] = @ + 1]
    /\ pc' = [pc EXCEPT ![Detail] = "await"]
    /\ UNCHANGED <<max_pages, term, page, products, cfg, log, closed,
                   finished, pending, outcome>>
    /\ UNCHANGED <<detailVars, domVars, ratingVars>>

\* arun returned: the rest of the body
D_Result ==
    /\ pc[Detail] = "await"
    /\ \E resp \in MockResponses(0) :
         LET r == DetailBody(resp)
             ctl == IF r.exc = NoExc THEN "return" ELSE "raise" IN
         /\ dresp' = resp
         /\ printed' = r.printed
         /\ products' = [products EXCEPT ![Detail] = @ \o r.details]
         /\ pending' = [pending EXCEPT ![Detail] = [ctl |-> ctl, exc |-> r.exc]]
         /\ pc' = [pc EXCEPT ![Detail] = ScopeExit(ctl)]
    /\ finished' = [finished EXCEPT ![Detail] = @ + 1]
    /\ UNCHANGED <<max_pages, term, page, cfg, log, opened, closed, started,
                   outcome>>
    /\ UNCHANGED <<domVars, ratingVars>>

\* __aexit__ returned: `return product_details`, or the exception goes on
D_Leave ==
    /\ pc[Detail] = "leaving"
    /\ closed' = [closed EXCEPT ![Detail] = @ + 1]
    /\ outcome' = [outcome EXCEPT ![Detail] =
                      IF pending[Detail].ctl = "raise"
                      THEN Raised(pending[Detail].exc)
                      ELSE Returned(products[Detail])]
    /\ pc' = [pc EXCEPT ![Detail] = "done"]
    /\ UNCHANGED <<max_pages, term, page, products, cfg, log, opened,
                   started, finished, pending>>
    /\ UNCHANGED <<detailVars, domVars, ratingVars>>

----------------------------------------------------------------------------
(* One request in isolation, the driver mocked *)

Blank == [term |-> 0, n |-> 0, writer |-> 0]

\* no coroutine has been called
InitCalls ==
    /\ pc = [p \in Procs |-> "idle"]
    /\ max_pages = [c \in Calls |-> 0]
    /\ term = [c \in Calls |-> 0]
    /\ page = [c \in Calls |-> 0]
    /\ products = [p \in Procs |-> <<>>]
    /\ cfg = [c \in Calls |-> NoCfg]
    /\ log = [c \in Calls |-> <<>>]
    /\ opened = [p \in Procs |-> 0]
    /\ closed = [p \in Procs |-> 0]
    /\ started = [p \in Procs |-> 0]
    /\ finished = [p \in Procs |-> 0]
    /\ pending = [p \in Procs |-> NoPending]
    /\ outcome = [p \in Procs |-> NoOutcome]
    /\ dresp = Failure
    /\ printed = <<>>
    /\ ctx = [k \in SessionIds |-> Blank]
    /\ ranOn = [c \in Calls |-> 0]

Init ==
    /\ InitCalls
    /\ rpc = "off"
    /\ rIn = <<>>
    /\ rOut = <<>>

\* no request has been made yet
Quiet == \A p \in Procs : pc[p] = "idle"

Next ==
    \/ \E n \in 0..MaxPages : Quiet /\ L_Call(1, 1, n)
    \/ L_Enter(1)
    \/ L_Iterate(1)
    \/ L_Result(1)
    \/ L_Leave(1)
    \/ Quiet /\ D_Call
    \/ D_Enter
    \/ D_Result
    \/ D_Leave

Spec == Init /\ [][Next]_vars

\* the event loop resumes every coroutine whose awaited operation completed,
\* and the driver completes every operation (with a failure on time-out)
FairSpec == Spec /\ WF_vars(Next)

----------------------------------------------------------------------------
(* Two listing calls against a driver that keeps one page per session id *)

\* the result nodes 1..n of the page showing the results for search term t
Nodes(t, n) == [i \in 1..n |-> RowOf(<<t, i>>, <<t, i>>)]

\* what arun extracts from page pg: every node matching the base selector,
\* and whether the load-more button is still in the markup
Extracted(pg) ==
    [success |-> TRUE,
     content |-> Json("list", Nodes(pg.term, pg.n)),
     marker  |-> pg.n < CatalogueSize]

\* wait_for: the page has more result nodes than `len(products)`; when the
\* wait times out the driver reports failure
WaitMet(pg, conf) == pg.n > conf.wait_for

\* arun with js_only=False: navigate to the search URL; the context then
\* shows the first m results of that search
Navigate(c, conf, m) == [term |-> conf.url, n |-> m, writer |-> c]

\* arun with js_only=True: run the load-more script on the page the context
\* already shows; the click, if the button is there, adds m result nodes
ClickLoadMore(c, pg, m) ==
    IF pg.term # 0 /\ pg.n < CatalogueSize
    THEN [pg EXCEPT !.n = @ + m, !.writer = c]
    ELSE pg

L_ResultDom(c) ==
    LET conf == cfg[c]
        pg   == ctx[conf.session_id] IN
    /\ pc[c] = "await"
    /\ \E m \in 1..MaxChunk :
         LET after == IF conf.js_only
                      THEN ClickLoadMore(c, pg, Min(m, CatalogueSize - pg.n))
                      ELSE Navigate(c, conf, Min(m, CatalogueSize))
             resp  == IF conf.js_only /\ ~WaitMet(after, conf)
                      THEN Failure
                      ELSE Extracted(after) IN
         /\ ctx' = [ctx EXCEPT ![conf.session_id] = after]
         /\ ranOn' = [ranOn EXCEPT ![c] = IF conf.js_only THEN pg.writer ELSE @]
         /\ Deliver(c, resp)

NextDom ==
    \E c \in Calls :
        \/ \E t \in Terms, n \in 0..MaxPagesDom : L_Call(c, t, n)
        \/ L_Enter(c)
        \/ L_Iterate(c)
        \/ L_ResultDom(c)
        \/ L_Leave(c)

SpecDom == Init /\ [][NextDom]_vars

----------------------------------------------------------------------------
(* WaitroseWineDetail.clean_rating *)

Chars == {"4", "5", ".", "o"}
Texts == UNION {[1..n -> Chars] : n \in 0..MaxText}

\* \d
IsDigit(ch) == ch \in {"4", "5"}

\* the first index from i on that holds no digit (Len(s) + 1 if none)
RECURSIVE ScanDigits(_, _)
ScanDigits(s, i) ==
    IF i <= Len(s) /\ IsDigit(s[i]) THEN ScanDigits(s, i + 1) ELSE i

\* the first index from i on that holds a digit (0 if none)
RECURSIVE FirstDigit(_, _)
FirstDigit(s, i) ==
    IF i > Len(s) THEN 0
    ELSE IF IsDigit(s[i]) THEN i
    ELSE FirstDigit(s, i + 1)

\* re.search(r"(\d+\.?\d*)", v).group(1), or <<>> when there is no match:
\* the leftmost match; each quantifier is greedy and none has to give back
ReSearch(v) ==
    LET i == FirstDigit(v, 1)
        a == ScanDigits(v, i)
        b == IF a <= Len(v) /\ v[a] = "." THEN a + 1 ELSE a
        e == ScanDigits(v, b) IN
    IF i = 0 THEN <<>> ELSE SubSeq(v, i, e - 1)

clean_rating(v) ==
    IF v # <<>>
    THEN IF ReSearch(v) # <<>> THEN ReSearch(v) ELSE v
    ELSE v

InitRating ==
    /\ InitCalls
    /\ rpc = "call"
    /\ rIn \in Texts
    /\ rOut = <<>>

\* the validator runs on the rating text of the record being constructed
R_Clean ==
    /\ rpc = "call"
    /\ rOut' = clean_rating(rIn)
    /\ rpc' = "done"
    /\ UNCHANGED <<pc, max_pages, term, page, products, cfg, log, opened,
                   closed, started, finished, pending, outcome, rIn>>
    /\ UNCHANGED <<detailVars, domVars>>

NextRating == R_Clean

SpecRating == InitRating /\ [][NextRating]_vars

----------------------------------------------------------------------------
(* Properties *)

Last(s) == s[Len(s)]

\* the rows of the first k driver results, in order
RECURSIVE RowsThrough(_, _)
RowsThrough(lg, k) ==
    IF k = 0 THEN <<>> ELSE RowsThrough(lg, k - 1) \o lg[k].content.rows

ValidBatch(content) ==
    /\ content.kind = "json"
    /\ content.shape = "list"
    /\ Len(content.rows) > 0
    /\ \A i \in 1..Len(content.rows) : WaitroseProduct(content.rows[i])

\* C1: every call of either flow opens exactly one crawler session, has a
\* fetch in flight only while that session is open, and has closed the
\* session, with no fetch left in flight, by the time the caller gets its
\* value or its exception.
C1_SessionScoped ==
    \A p \in Procs :
        /\ opened[p] <= 1
        /\ closed[p] <= opened[p]
        /\ started[p] > 0 => opened[p] = 1
        /\ started[p] > finished[p] => closed[p] = 0
        /\ (pc[p] = "done" \/ outcome[p].kind # "none") =>
              /\ opened[p] = 1
              /\ closed[p] = 1
              /\ started[p] = finished[p]

\* C1 witness: a listing call that fetched two pages and ended with an
\* exception, and a closed session
C1_ClosedAfterException ==
    /\ pc[1] = "done"
    /\ outcome[1].kind = "raise"
    /\ started[1] >= 2
    /\ closed[1] = 1

\* C2: once the fetch of page k has reported failure the listing call makes
\* no further fetch, raises nothing, and holds (and returns) exactly the rows
\* of pages 0..k-1 in order.
C2_FailedFetchTruncates ==
    \A c \in Calls :
        (log[c] # <<>> /\ ~Last(log[c]).success) =>
            /\ started[c] = Len(log[c])
            /\ pending[c].ctl = "break"
            /\ products[c] = RowsThrough(log[c], Len(log[c]) - 1)
            /\ pc[c] = "done" =>
                  outcome[c] = Returned(RowsThrough(log[c], Len(log[c]) - 1))

\* C2 witness: the third fetch failed and the call returned the rows of the
\* first two pages
C2_ThirdFetchFailed ==
    /\ pc[1] = "done"
    /\ Len(log[1]) = 3
    /\ ~log[1][3].success
    /\ outcome[1].kind = "return"
    /\ Len(outcome[1].value) >= 2

\* C3 as stated: a successful fetch whose payload cannot be parsed makes the
\* listing call return the rows of the earlier pages, with no exception.
C3_UnparseableTruncates ==
    \A c \in Calls :
        (/\ pc[c] = "done"
         /\ log[c] # <<>>
         /\ Last(log[c]).success
         /\ JsonLoads(Last(log[c]).content) # NoExc) =>
            outcome[c] = Returned(RowsThrough(log[c], Len(log[c]) - 1))

\* C3 amended: a successful fetch whose payload cannot be parsed ends the
\* listing call with the parse error: no further fetch is made, and the
\* caller gets json.loads's exception and none of the accumulated rows.
C3_UnparseableRaises ==
    \A c \in Calls :
        (/\ log[c] # <<>>
         /\ Last(log[c]).success
         /\ JsonLoads(Last(log[c]).content) # NoExc) =>
            /\ started[c] = Len(log[c])
            /\ pending[c].ctl = "raise"
            /\ pc[c] = "done" =>
                  /\ outcome[c].kind = "raise"
                  /\ outcome[c].exc \in {"JSONDecodeError", "TypeError"}
                  /\ outcome[c].value = <<>>

\* C3 witness: the second page's payload was not JSON, the first page's rows
\* had been accumulated, and the caller got JSONDecodeError
C3_ParseErrorSurfaced ==
    /\ pc[1] = "done"
    /\ Len(log[1]) = 2
    /\ Last(log[1]).success
    /\ Last(log[1]).content.kind = "malformed"
    /\ Len(products[1]) > 0
    /\ outcome[1] = Raised("JSONDecodeError")

\* C4, the safety part: at most max_pages fetches, never two in flight, and
\* with max_pages = 0 no fetch and the empty result.
C4_Bounded ==
    \A c \in Calls :
        /\ started[c] <= max_pages[c]
        /\ finished[c] <= started[c]
        /\ started[c] <= finished[c] + 1
        /\ (pc[c] = "done" /\ max_pages[c] = 0) =>
              /\ started[c] = 0
              /\ outcome[c] = Returned(<<>>)

\* C4: for every max_pages and every sequence of driver results a listing
\* call makes at most max_pages fetches, one after another, and terminates.
C4_BoundedSequentialTerminates ==
    /\ []C4_Bounded
    /\ \A c \in Calls : (pc[c] = "entering") ~> (pc[c] = "done")

\* C4 witness: a call that used up all of its max_pages >= 2 fetches
C4_AllPagesFetched ==
    /\ pc[1] = "done"
    /\ max_pages[1] >= 2
    /\ started[1] = max_pages[1]
    /\ finished[1] = max_pages[1]

DetailListDone ==
    /\ pc[Detail] = "done"
    /\ dresp.success
    /\ dresp.content.kind = "json"
    /\ dresp.content.shape = "list"

C7_SoftFailuresEmpty ==
    (/\ pc[Detail] = "done"
     /\ ~dresp.success \/ JsonLoads(dresp.content) # NoExc) =>
        outcome[Detail] = Returned(<<>>)

NoDuplicates(s) == \A i, j \in 1..Len(s) : s[i] = s[j] => i = j

\* C8: a listing call that ran alone, on a page where every load-more click
\* adds result nodes and every fetch extracts the nodes of the page as it
\* stands, returns no item twice, the items being in page order.
C8_NoDuplicates ==
    \A c \in Calls :
        (/\ pc[c] = "done"
         /\ outcome[c].kind = "return"
         /\ \A d \in Calls \ {c} : pc[d] = "idle") =>
            /\ NoDuplicates(outcome[c].value)
            /\ outcome[c].value = Nodes(term[c], Len(outcome[c].value))

HasDigit(s) == \E i \in 1..Len(s) : IsDigit(s[i])
IsInteger(t) == Len(t) > 0 /\ \A k \in 1..Len(t) : IsDigit(t[k])
IsDecimal(t) ==
    \E d \in 2..(Len(t) - 1) :
        /\ t[d] = "."
        /\ IsInteger(SubSeq(t, 1, d - 1))
        /\ IsInteger(SubSeq(t, d + 1, Len(t)))
IsNumeric(t) == IsInteger(t) \/ IsDecimal(t)

\* the longest integer or decimal numeral that starts at the first digit of s
LeadingNumber(s) ==
    LET i == CHOOSE k \in 1..Len(s) :
                 IsDigit(s[k]) /\ \A h \in 1..(k - 1) : ~IsDigit(s[h])
        e == CHOOSE k \in i..Len(s) :
                 /\ IsNumeric(SubSeq(s, i, k))
                 /\ \A h \in (k + 1)..Len(s) : ~IsNumeric(SubSeq(s, i, h))
    IN SubSeq(s, i, e)

\* C9: for a non-empty rating text the stored rating is the leading numeric
\* token, an integer or a decimal; a text with no digit is stored unchanged.
C9_LeadingNumber ==
    (rpc = "done" /\ rIn # <<>>) =>
        rOut = IF HasDigit(rIn) THEN LeadingNumber(rIn) ELSE rIn

\* C10: every listing call selects the same browser context, by the one
\* fixed session identifier, and nothing holds a call back while another is
\* between two of its fetches: the fetch a call awaits can always complete.
C10_SharedUncoordinated ==
    \A c \in Calls :
        /\ cfg[c] # NoCfg => cfg[c].session_id = "waitrose_session"
        /\ \A d \in Calls :
              (cfg[c] # NoCfg /\ cfg[d] # NoCfg) =>
                  cfg[c].session_id = cfg[d].session_id
        /\ pc[c] = "await" => ENABLED L_ResultDom(c)

\* C10 witness: the race. A call's load-more fetch ran on the page the
\* other call's fetch had last written, and the call accumulated rows of the
\* other call's search.
C10_Race ==
    \E c \in Calls :
        /\ cfg[c].js_only
        /\ ranOn[c] \notin {0, c}
        /\ \E i \in 1..Len(products[c]) :
              products[c][i].product_name[1] # term[c]
====
